---------------------------- MODULE Spec2Model ----------------------------
(***************************************************************************)
(* Model of dyngoose's MagicSearch (src/src/query/search.ts): the filter   *)
(* builder, the automatic index selection (findAvailableIndex and          *)
(* checkFilters), the compilation of the request (getInput) and the paged  *)
(* execution (exec, minimum, all, page).                                   *)
(***************************************************************************)
EXTENDS Integers, Sequences, FiniteSets, TLC

VARIABLES
    schema,         \* this.tableClass.schema: the table's index catalog
    filters,        \* this.filters: the filter list of the search
    input,          \* this.input: the request options of the search
    pc,             \* where the caller of the search is
    operation,      \* the executing method: "none", "getInput", "exec", "minimum", "all"
    minimumArg,     \* the argument of minimum(n)
    request,        \* the request getInput returned (the local `input` of exec, minimum, all)
    indexMetadata,  \* the local indexMetadata of the last getInput
    consulted,      \* whether the last getInput called findAvailableIndex
    error,          \* the error the operation threw, or None
    reads,          \* the reads issued to the store (dynamo.query / dynamo.scan), in order
    outputs,        \* the pages fetched so far (the local `outputs` of minimum and all)
    loaded,         \* the local `count` of minimum
    result,         \* what the operation returned
    heap,           \* the options objects searches run side by side hold by reference
    searches,       \* the searches that run side by side on the table
    obj,            \* the value handed to a predicate of utils/is
    answer,         \* what the predicate did with it
    store           \* the store behind dynamo.query / dynamo.scan: "finite" or "endless"

vars == <<schema, filters, input, pc, operation, minimumArg, request, indexMetadata,
          consulted, error, reads, outputs, loaded, result, heap, searches, obj, answer,
          store>>

\* the state that is not of the one search: no method of MagicSearch writes it
elsewhere == <<heap, searches, obj, answer, store>>

-----------------------------------------------------------------------------
(* Bounds of the model *)

MaxFilters == 3     \* entries of the filter list
MaxIndexes == 2     \* secondary indexes (global and local together) of a catalog
MaxAttributes == 2  \* names of the attributes list of a search
MaxPages == 3       \* pages the store holds: the last one carries no token

-----------------------------------------------------------------------------
(* Values *)

None == "none"      \* undefined / null of a string-valued field
Absent == << >>     \* undefined / null of any other field: an option is << >> or <<v>>
Some(v) == <<v>>
IsPresent(o) == o # Absent

-----------------------------------------------------------------------------
(* The filter list: ComplexFilters<T> is an array of filter groups (objects  *)
(* mapping an attribute name to a value or to an [operator, ...] tuple), of  *)
(* nested arrays (pushed by group) and of 'OR' strings (pushed by or).       *)

Plain == "plain"    \* the filter is a bare value, not an [operator, ...] array

Cond(attr, op) == [attr |-> attr, op |-> op]

GroupEntry(conds) == [kind |-> "group", conds |-> conds, sub |-> << >>]
OrMarker == [kind |-> "OR", conds |-> {}, sub |-> << >>]
NestedEntry(fs) == [kind |-> "nested", conds |-> {}, sub |-> fs]

\* lodash has(filters, name): an 'OR' string and a nested array own no attribute name
has(entry, name) ==
    entry.kind = "group" /\ \E c \in entry.conds : c.attr = name

\* lodash get(filters, name)
get(entry, name) ==
    (CHOOSE c \in entry.conds : c.attr = name).op

\* isArray(filter): the filter carries an operator
isArray(op) == op # Plain

\* keyConditionAllowedOperators of ./expression: equality, the ordering
\* comparisons, prefix match and range-between
keyConditionAllowedOperators ==
    {"=", "<", "<=", ">", ">=", "beginsWith", "between"}

-----------------------------------------------------------------------------
(* The index catalog *)

NoIndex ==
    [kind |-> None, name |-> None, hash |-> None, range |-> None, projection |-> None]

PrimaryKey(hash, range) ==
    [kind |-> "PK", name |-> None, hash |-> hash, range |-> range, projection |-> None]

Gsi(name, hash, range, projection) ==
    [kind |-> "GSI", name |-> name, hash |-> hash, range |-> range,
     projection |-> projection]

\* the metadata of a local secondary index has no hash of its own
Lsi(name, range, projection) ==
    [kind |-> "LSI", name |-> name, hash |-> None, range |-> range,
     projection |-> projection]

GsiPool ==
    { Gsi("byEmailKeys", "email", None, "KEYS_ONLY"),
      Gsi("byEmail", "email", None, "ALL"),
      Gsi("byEmailTs", "email", "ts", "ALL") }

LsiPool ==
    { Lsi("byTs", "ts", "ALL"),
      Lsi("byTsInc", "ts", "INCLUDE"),
      Lsi("byEmail", "ts", "ALL") }      \* a name a global index has too

\* the sequences of at most n distinct members of pool
DistinctSeqs(pool, n) ==
    { s \in UNION { [1..k -> pool] : k \in 0..n } :
        \A i, j \in DOMAIN s : i # j => s[i] # s[j] }

Catalogs ==
    { [name |-> "T",
       primaryKey |-> PrimaryKey("id", r),
       globalSecondaryIndexes |-> g,
       localSecondaryIndexes |-> l] :
         r \in {None, "rk"},
         g \in DistinctSeqs(GsiPool, MaxIndexes),
         l \in DistinctSeqs(LsiPool, MaxIndexes) }

SelCatalogs ==
    { c \in Catalogs :
        Len(c.globalSecondaryIndexes) + Len(c.localSecondaryIndexes) <= MaxIndexes }

-----------------------------------------------------------------------------
(* MagicSearchInput and the compiled request *)

NoIndexOption == [by |-> "none", name |-> None, metadata |-> NoIndex]
IndexByName(n) == [by |-> "name", name |-> n, metadata |-> NoIndex]
IndexByRef(ix) == [by |-> "ref", name |-> None, metadata |-> ix]

EmptyInput ==
    [limit |-> Absent,
     exclusiveStartKey |-> Absent,
     attributes |-> Absent,
     projectionExpression |-> Absent,
     rangeOrder |-> None,
     consistent |-> Absent,
     returnOnlyCount |-> FALSE,
     index |-> NoIndexOption]

NoRequest ==
    [TableName |-> None,
     ConsistentRead |-> FALSE,
     FilterExpression |-> Absent,
     KeyConditionExpression |-> Absent,
     ProjectionExpression |-> Absent,
     Select |-> None,
     ScanIndexForward |-> Absent,
     Limit |-> Absent,
     ExclusiveStartKey |-> Absent,
     IndexName |-> None]

-----------------------------------------------------------------------------
(* checkFilters: can an index with this hash (and range) serve the filters? *)

\* checkEntry with a hash filter that carries an operator never accepted
checkEntry_bareValuesOnly(entry, hash, range) ==
    IF ~has(entry, hash) THEN FALSE
    ELSE IF isArray(get(entry, hash)) THEN FALSE
    ELSE IF range = None THEN TRUE
    ELSE IF ~has(entry, range) THEN FALSE
    ELSE IF isArray(get(entry, range))
            /\ get(entry, range) \notin keyConditionAllowedOperators THEN FALSE
    ELSE TRUE

\* checkEntry without the test of the hash filter's operator
checkEntry_anyHashOperator(entry, hash, range) ==
    IF ~has(entry, hash) THEN FALSE
    ELSE IF range = None THEN TRUE
    ELSE IF ~has(entry, range) THEN FALSE
    ELSE IF isArray(get(entry, range))
            /\ get(entry, range) \notin keyConditionAllowedOperators THEN FALSE
    ELSE TRUE

\* One turn of the loop over this.filters: TRUE is `return true`, FALSE is
\* `continue`.
checkEntry(entry, hash, range) ==
    IF ~has(entry, hash) THEN FALSE
    ELSE IF isArray(get(entry, hash))
            /\ get(entry, hash) \notin keyConditionAllowedOperators THEN FALSE
    ELSE IF range = None THEN TRUE
    ELSE IF ~has(entry, range) THEN FALSE
    ELSE IF isArray(get(entry, range))
            /\ get(entry, range) \notin keyConditionAllowedOperators THEN FALSE
    ELSE TRUE

RECURSIVE checkFiltersFrom(_, _, _, _)
checkFiltersFrom(fs, i, hash, range) ==
    IF i > Len(fs) THEN FALSE
    ELSE IF checkEntry(fs[i], hash, range) THEN TRUE
    ELSE checkFiltersFrom(fs, i + 1, hash, range)

checkFilters(fs, hash, range) == checkFiltersFrom(fs, 1, hash, range)

-----------------------------------------------------------------------------
(* findAvailableIndex *)

\* skipProjection that lets a KEYS_ONLY index through
skipProjection_includeOnly(index) ==
    index.projection = "INCLUDE"

\* the test that skips an index without a full projection
skipProjection(index) ==
    index.projection = "INCLUDE" \/ index.projection = "KEYS_ONLY"

\* Object.assign({ hash: primaryKey.hash }, index)
withTableHash(sch, index) == [index EXCEPT !.hash = sch.primaryKey.hash]

\* the loop over schema.globalSecondaryIndexes, from its i-th turn on;
\* NoIndex when it ends without returning
RECURSIVE globalLoop(_, _, _)
globalLoop(sch, fs, i) ==
    IF i > Len(sch.globalSecondaryIndexes) THEN NoIndex
    ELSE LET index == sch.globalSecondaryIndexes[i] IN
         IF skipProjection(index) THEN globalLoop(sch, fs, i + 1)
         ELSE IF checkFilters(fs, index.hash, index.range) THEN index
         ELSE globalLoop(sch, fs, i + 1)

\* the loop over schema.localSecondaryIndexes
RECURSIVE localLoop(_, _, _)
localLoop(sch, fs, i) ==
    IF i > Len(sch.localSecondaryIndexes) THEN NoIndex
    ELSE LET index == sch.localSecondaryIndexes[i] IN
         IF skipProjection(index) THEN localLoop(sch, fs, i + 1)
         ELSE IF checkFilters(fs, sch.primaryKey.hash, index.range)
              THEN withTableHash(sch, index)
         ELSE localLoop(sch, fs, i + 1)

\* findAvailableIndex with the local secondary indexes looked through first
findAvailableIndex_localFirst(sch, fs) ==
    IF checkFilters(fs, sch.primaryKey.hash, sch.primaryKey.range)
    THEN sch.primaryKey
    ELSE LET l == localLoop(sch, fs, 1) IN
         IF l # NoIndex THEN l ELSE globalLoop(sch, fs, 1)

findAvailableIndex(sch, fs) ==
    IF checkFilters(fs, sch.primaryKey.hash, sch.primaryKey.range)
    THEN sch.primaryKey
    ELSE LET g == globalLoop(sch, fs, 1) IN
         IF g # NoIndex THEN g ELSE localLoop(sch, fs, 1)

-----------------------------------------------------------------------------
(* The collaborators of getInput that ./expression and                      *)
(* ./projection-expression define                                           *)

\* The key conditions buildQueryExpression extracts: the conditions on the
\* index's hash (and range) of the entries that are key-eligible for it.
RECURSIVE keyConditions(_, _, _)
keyConditions(fs, i, index) ==
    IF i > Len(fs) THEN << >>
    ELSE (IF checkEntry(fs[i], index.hash, index.range)
          THEN <<Cond(index.hash, get(fs[i], index.hash))>>
               \o (IF index.range = None THEN << >>
                   ELSE <<Cond(index.range, get(fs[i], index.range))>>)
          ELSE << >>)
         \o keyConditions(fs, i + 1, index)

RECURSIVE conditionCount(_)
conditionCount(fs) ==
    IF fs = << >> THEN 0
    ELSE (IF Head(fs).kind = "group" THEN Cardinality(Head(fs).conds)
          ELSE IF Head(fs).kind = "nested" THEN conditionCount(Head(fs).sub)
          ELSE 0)
         + conditionCount(Tail(fs))

\* buildQueryExpression(schema, filters, indexMetadata): without an index the
\* key condition stays absent; the filter expression is kept as the filter
\* tree it is the text of
buildQueryExpression(sch, fs, index) ==
    LET keys == IF index = NoIndex THEN << >> ELSE keyConditions(fs, 1, index) IN
    [KeyConditionExpression |-> IF keys = << >> THEN Absent ELSE Some(keys),
     FilterExpression |-> IF conditionCount(fs) = 0 THEN Absent ELSE Some(fs)]

\* buildProjectionExpression(tableClass, attributes, names)
buildProjectionExpression(attributes) ==
    [ProjectionExpression |-> Some(attributes)]

-----------------------------------------------------------------------------
(* getInput *)

\* the loop over the global secondary indexes that looks a name up: it has no
\* break, so the last index of that name stays
RECURSIVE globalByName(_, _, _, _)
globalByName(sch, indexName, i, found) ==
    IF i > Len(sch.globalSecondaryIndexes) THEN found
    ELSE globalByName(sch, indexName, i + 1,
            IF sch.globalSecondaryIndexes[i].name = indexName
            THEN sch.globalSecondaryIndexes[i] ELSE found)

\* the same loop over the local secondary indexes, run when no global index
\* has the name
RECURSIVE localByName(_, _, _, _)
localByName(sch, indexName, i, found) ==
    IF i > Len(sch.localSecondaryIndexes) THEN found
    ELSE localByName(sch, indexName, i + 1,
            IF sch.localSecondaryIndexes[i].name = indexName
            THEN withTableHash(sch, sch.localSecondaryIndexes[i]) ELSE found)

\* indexByName that looks through the local secondary indexes first
indexByName_localFirst(sch, indexName) ==
    LET l == localByName(sch, indexName, 1, NoIndex) IN
    IF l # NoIndex THEN l ELSE globalByName(sch, indexName, 1, NoIndex)

indexByName(sch, indexName) ==
    LET g == globalByName(sch, indexName, 1, NoIndex) IN
    IF g # NoIndex THEN g ELSE localByName(sch, indexName, 1, NoIndex)

\* (typeof this.input.index.metadata as any).hash === 'undefined': typeof
\* yields a string, a string has no member hash, and undefined is not the
\* string 'undefined'; the test is false for every index object
referenceLacksHash(metadata) == FALSE

indexByReference(sch, metadata) ==
    IF referenceLacksHash(metadata) THEN withTableHash(sch, metadata) ELSE metadata

\* the three-way choice of the index: [threw, index, consulted]
resolveIndex(sch, fs, inp) ==
    IF inp.index.by = "name"
    THEN LET m == indexByName(sch, inp.index.name) IN
         [threw |-> m = NoIndex, index |-> m, consulted |-> FALSE]
    ELSE IF inp.index.by = "ref"
    THEN [threw |-> FALSE, index |-> indexByReference(sch, inp.index.metadata),
          consulted |-> FALSE]
    ELSE [threw |-> FALSE, index |-> findAvailableIndex(sch, fs), consulted |-> TRUE]

\* the projection of the request: a raw projectionExpression wins over attributes
projectionOf(inp, req) ==
    IF IsPresent(inp.projectionExpression)
    THEN [req EXCEPT !.ProjectionExpression = inp.projectionExpression]
    ELSE IF IsPresent(inp.attributes)
    THEN [req EXCEPT !.Select = "SPECIFIC_ATTRIBUTES",
                     !.ProjectionExpression =
                         buildProjectionExpression(inp.attributes[1]).ProjectionExpression]
    ELSE req

\* scanDirectionOf that leaves the direction to page
scanDirectionOf_never(inp, req) == req

\* scanDirectionOf that sets the flag for every range order
scanDirectionOf_anyOrder(inp, req) ==
    IF inp.rangeOrder # None THEN [req EXCEPT !.ScanIndexForward = Some(FALSE)]
    ELSE req

scanDirectionOf(inp, req) ==
    IF inp.rangeOrder = "DESC" THEN [req EXCEPT !.ScanIndexForward = Some(FALSE)]
    ELSE req

pagingOf(inp, req) ==
    [req EXCEPT !.Limit = IF IsPresent(inp.limit) THEN inp.limit ELSE @,
                !.ExclusiveStartKey =
                    IF IsPresent(inp.exclusiveStartKey) THEN inp.exclusiveStartKey ELSE @,
                !.ConsistentRead =
                    IF IsPresent(inp.consistent) THEN inp.consistent[1] ELSE @]

indexNameOf(index, req) ==
    IF index # NoIndex /\ index.name # None
    THEN [req EXCEPT !.IndexName = index.name]
    ELSE req

\* countOf that leaves the projection expression in the request
countOf_keepProjection(inp, req) ==
    IF inp.returnOnlyCount = TRUE THEN [req EXCEPT !.Select = "COUNT"] ELSE req

\* count does not allow ProjectionExpression to be specified
countOf(inp, req) ==
    IF inp.returnOnlyCount = TRUE
    THEN [req EXCEPT !.Select = "COUNT", !.ProjectionExpression = Absent]
    ELSE req

keyConditionOf(query, req) ==
    IF IsPresent(query.KeyConditionExpression)
    THEN [req EXCEPT !.KeyConditionExpression = query.KeyConditionExpression]
    ELSE req

\* getInput(): [threw, request, indexMetadata, consulted]
getInputOf(sch, fs, inp) ==
    LET r == resolveIndex(sch, fs, inp) IN
    IF r.threw
    THEN [threw |-> TRUE, request |-> NoRequest, indexMetadata |-> NoIndex,
          consulted |-> r.consulted]
    ELSE LET query == buildQueryExpression(sch, fs, r.index)
             base == [NoRequest EXCEPT !.TableName = sch.name,
                                       !.ConsistentRead = FALSE,
                                       !.FilterExpression = query.FilterExpression]
         IN [threw |-> FALSE,
             request |->
                 keyConditionOf(query,
                   countOf(inp,
                     indexNameOf(r.index,
                       pagingOf(inp,
                         scanDirectionOf(inp,
                           projectionOf(inp, base)))))),
             indexMetadata |-> r.index,
             consulted |-> r.consulted]

-----------------------------------------------------------------------------
(* The builder methods, on a search object [filters, input] *)

NewSearch == [filters |-> << >>, input |-> EmptyInput]

addFilterGroup(s, groups) == [s EXCEPT !.filters = @ \o groups]

or(s) == [s EXCEPT !.filters = Append(@, OrMarker)]

and(s) == s

limit(s, n) == [s EXCEPT !.input.limit = Some(n)]

startAt(s, exclusiveStartKey) ==
    [s EXCEPT !.input.exclusiveStartKey = exclusiveStartKey]

attributes(s, attributeNames) ==
    [s EXCEPT !.input.attributes =
        Some((IF IsPresent(@) THEN @[1] ELSE << >>) \o attributeNames)]

\* schema.getAttributeByPropertyName(propertyName).name
getAttributeByPropertyName(propertyName) ==
    IF propertyName = "emailAddress" THEN "email"
    ELSE IF propertyName = "createdAt" THEN "ts"
    ELSE propertyName

RECURSIVE attributeNamesOf(_)
attributeNamesOf(propertyNames) ==
    IF propertyNames = << >> THEN << >>
    ELSE <<getAttributeByPropertyName(Head(propertyNames))>>
         \o attributeNamesOf(Tail(propertyNames))

properties(s, propertyNames) ==
    [s EXCEPT !.input.attributes =
        Some((IF IsPresent(@) THEN @[1] ELSE << >>) \o attributeNamesOf(propertyNames))]

count(s) == [s EXCEPT !.input.returnOnlyCount = TRUE]

consistent(s, c) == [s EXCEPT !.input.consistent = Some(c)]

\* using(null) clears the index
using(s, index) == [s EXCEPT !.input.index = index]

sort(s, direction) ==
    IF direction = "ascending" THEN [s EXCEPT !.input.rangeOrder = "ASC"]
    ELSE IF direction = "descending" THEN [s EXCEPT !.input.rangeOrder = "DESC"]
    ELSE s

ascending(s) == sort(s, "ascending")

descending(s) == sort(s, "descending")

\* A callback handed to group is the sequence of calls it makes on the builder
\* it receives.
Call(method, conds, arg) == [method |-> method, conds |-> conds, arg |-> arg]

RECURSIVE runCallback(_, _)
RECURSIVE group(_, _)

applyCall(s, c) ==
    IF c.method = "addFilterGroup" THEN addFilterGroup(s, <<GroupEntry(c.conds)>>)
    ELSE IF c.method = "or" THEN or(s)
    ELSE IF c.method = "and" THEN and(s)
    ELSE IF c.method = "count" THEN count(s)
    ELSE IF c.method = "sort" THEN sort(s, c.arg)
    ELSE IF c.method = "startAt" THEN startAt(s, c.arg)
    ELSE IF c.method = "limit" THEN limit(s, c.arg)
    ELSE IF c.method = "using" THEN using(s, c.arg)
    ELSE IF c.method = "group" THEN group(s, c.arg)
    ELSE s

runCallback(s, calls) ==
    IF calls = << >> THEN s
    ELSE runCallback(applyCall(s, Head(calls)), Tail(calls))

\* group whose child search is made on the options object of its parent
group_sharedInput(s, value) ==
    LET groupedSearch == runCallback([filters |-> << >>, input |-> s.input], value) IN
    [s EXCEPT !.filters = Append(@, NestedEntry(groupedSearch.filters)),
              !.input = groupedSearch.input]

\* group(value): a new search runs the callback and its filters are pushed
group(s, value) ==
    LET groupedSearch == runCallback(NewSearch, value) IN
    [s EXCEPT !.filters = Append(@, NestedEntry(groupedSearch.filters))]

parenthesis(s, value) == group(s, value)

-----------------------------------------------------------------------------
(* What the callers of the model pass to the builder *)

FilterGroups ==
    { {Cond("id", Plain)},
      {Cond("id", "<>")},
      {Cond("id", "="), Cond("rk", ">")},
      {Cond("rk", Plain)},
      {Cond("email", Plain)},
      {Cond("id", Plain), Cond("ts", "between"), Cond("email", "=")} }

GroupCallbacks ==
    { <<Call("addFilterGroup", {Cond("id", Plain)}, None)>> }

-----------------------------------------------------------------------------
(* The state machine *)

This == [filters |-> filters, input |-> input]

\* there is the one search and nothing else
Alone ==
    /\ heap = << >>
    /\ searches = << >>
    /\ obj = Absent
    /\ answer = Absent
    /\ store = "finite"

NotRun ==
    /\ operation = "none"
    /\ minimumArg = 0
    /\ request = NoRequest
    /\ indexMetadata = NoIndex
    /\ consulted = FALSE
    /\ error = None
    /\ reads = << >>
    /\ outputs = << >>
    /\ loaded = 0
    /\ result = Absent

run == <<pc, operation, minimumArg, request, indexMetadata, consulted, error, reads,
         outputs, loaded, result>>

\* a builder call leaves the search as s
Built(s) ==
    /\ filters' = s.filters
    /\ input' = s.input
    /\ UNCHANGED <<schema, run, elsewhere>>

AddFilterGroup ==
    /\ pc = "build"
    /\ Len(filters) < MaxFilters
    /\ \E g \in FilterGroups : Built(addFilterGroup(This, <<GroupEntry(g)>>))

Or ==
    /\ pc = "build"
    /\ Len(filters) < MaxFilters
    /\ Built(or(This))

And ==
    /\ pc = "build"
    /\ Built(and(This))

Group ==
    /\ pc = "build"
    /\ Len(filters) < MaxFilters
    /\ \E value \in GroupCallbacks : Built(group(This, value))

\* a call of getInput() by the caller of the search
GetInput ==
    /\ pc \in {"build", "compiled"}
    /\ LET r == getInputOf(schema, filters, input) IN
        /\ pc' = IF r.threw THEN "failed" ELSE "compiled"
        /\ operation' = "getInput"
        /\ request' = r.request
        /\ indexMetadata' = r.indexMetadata
        /\ consulted' = r.consulted
        /\ error' = IF r.threw THEN "QueryError" ELSE None
    /\ UNCHANGED <<schema, filters, input, minimumArg, reads, outputs, loaded, result,
                   elsewhere>>

\* Index selection: every catalog, the filter lists the builder makes, getInput
SelInit ==
    /\ schema \in SelCatalogs
    /\ filters = << >>
    /\ input = EmptyInput
    /\ pc = "build"
    /\ NotRun
    /\ Alone

SelNext == AddFilterGroup \/ Or \/ And \/ Group \/ GetInput

SpecSel == SelInit /\ [][SelNext]_vars

-----------------------------------------------------------------------------
(* The request options: the builder calls that set them *)

Limits == {25}
StartKeys == {Some(0)}      \* the caller's exclusiveStartKey
AttributeArgs == {<<"email">>, <<"ts">>}
PropertyArgs == {<<"emailAddress">>}
IndexNames == {"byEmail", "byTs", "missing"}

\* what a caller can hand to using: null, a name, or an index object of the table
IndexArgs(sch) ==
    {NoIndexOption}
    \cup { IndexByName(n) : n \in IndexNames }
    \cup { IndexByRef(m) :
             m \in {sch.primaryKey}
                   \cup { sch.globalSecondaryIndexes[i] :
                            i \in DOMAIN sch.globalSecondaryIndexes }
                   \cup { sch.localSecondaryIndexes[i] :
                            i \in DOMAIN sch.localSecondaryIndexes } }

AttributesLeft ==
    MaxAttributes - (IF IsPresent(input.attributes) THEN Len(input.attributes[1]) ELSE 0)

Limit ==
    /\ pc = "build"
    /\ \E n \in Limits : Built(limit(This, n))

StartAt ==
    /\ pc = "build"
    /\ \E k \in StartKeys \cup {Absent} : Built(startAt(This, k))

Attributes ==
    /\ pc = "build"
    /\ \E names \in AttributeArgs :
          Len(names) <= AttributesLeft /\ Built(attributes(This, names))

Properties ==
    /\ pc = "build"
    /\ \E names \in PropertyArgs :
          Len(names) <= AttributesLeft /\ Built(properties(This, names))

Count ==
    /\ pc = "build"
    /\ Built(count(This))

Consistent ==
    /\ pc = "build"
    /\ Built(consistent(This, TRUE))

Using ==
    /\ pc = "build"
    /\ \E index \in IndexArgs(schema) : Built(using(This, index))

Sort ==
    /\ pc = "build"
    /\ \E direction \in {"ascending", "descending"} : Built(sort(This, direction))

Ascending ==
    /\ pc = "build"
    /\ Built(ascending(This))

Descending ==
    /\ pc = "build"
    /\ Built(descending(This))

\* The tables of the searches that set options and run
RunCatalogs ==
    { [name |-> "T",
       primaryKey |-> PrimaryKey("id", None),
       globalSecondaryIndexes |-> <<Gsi("byEmail", "email", None, "ALL")>>,
       localSecondaryIndexes |-> << >>],
      [name |-> "T",
       primaryKey |-> PrimaryKey("id", "rk"),
       globalSecondaryIndexes |-> <<Gsi("byEmail", "email", None, "ALL")>>,
       localSecondaryIndexes |-> <<Lsi("byTs", "ts", "ALL"), Lsi("byEmail", "ts", "ALL")>>] }

\* new MagicSearch(tableClass, filters, input): the filters argument is one group
ConstructorFilters ==
    {<< >>} \cup { <<GroupEntry(g)>> : g \in FilterGroups }

\* projectionExpression has no builder method: only the constructor's input sets it
ConstructorInputs ==
    { EmptyInput, [EmptyInput EXCEPT !.projectionExpression = Some(<<"#raw">>)] }

\* Request options: every builder call that sets one, then getInput
InputInit ==
    /\ schema \in RunCatalogs
    /\ filters \in {<< >>, <<GroupEntry({Cond("email", Plain)})>>}
    /\ input \in ConstructorInputs
    /\ pc = "build"
    /\ NotRun
    /\ Alone

InputNext ==
    \/ Limit \/ StartAt \/ Attributes \/ Properties \/ Count \/ Consistent
    \/ Using \/ Sort \/ Ascending \/ Descending \/ And \/ GetInput

SpecInput == InputInit /\ [][InputNext]_vars

-----------------------------------------------------------------------------
(* page, exec, minimum and all *)

PageSizes == {0, 10}        \* the items a page of the store can hold
MinimumArgs == {5, 25}      \* the arguments of minimum

\* pageOf that runs a query whenever the request names an index
pageOf_queryOnIndexName(req) ==
    IF IsPresent(req.KeyConditionExpression) \/ req.IndexName # None
    THEN [threw |-> FALSE, via |-> "query", request |-> req]
    ELSE IF req.ScanIndexForward = Some(FALSE)
    THEN [threw |-> TRUE, via |-> None, request |-> req]
    ELSE [threw |-> FALSE, via |-> "scan",
          request |-> [req EXCEPT !.ScanIndexForward = Absent]]

\* pageOf that drops the scan direction of a scan without throwing
pageOf_noDirectionCheck(req) ==
    IF IsPresent(req.KeyConditionExpression)
    THEN [threw |-> FALSE, via |-> "query", request |-> req]
    ELSE [threw |-> FALSE, via |-> "scan",
          request |-> [req EXCEPT !.ScanIndexForward = Absent]]

\* page(input) up to its read: the capability it calls, or the usage error it
\* throws; on the scan branch it deletes ScanIndexForward from the request
pageOf(req) ==
    IF IsPresent(req.KeyConditionExpression)
    THEN [threw |-> FALSE, via |-> "query", request |-> req]
    ELSE IF req.ScanIndexForward = Some(FALSE)
    THEN [threw |-> TRUE, via |-> None, request |-> req]
    ELSE [threw |-> FALSE, via |-> "scan",
          request |-> [req EXCEPT !.ScanIndexForward = Absent]]

\* tolerantOf that hands over hasProjection as page computes it, not negated
tolerantOf_hasProjection(req) == req.ProjectionExpression = Absent

\* !hasProjection, the flag page hands to QueryOutput.fromDynamoOutput
tolerantOf(req) == ~(req.ProjectionExpression = Absent)

\* the tokens the n-th page of the store can carry: a finite store has
\* MaxPages pages at most and its last page carries none; an endless store has
\* a token on every page (the model follows it for MaxPages pages)
StoreTokens(n) ==
    IF store = "endless" THEN (IF n <= MaxPages THEN {Some(n)} ELSE {})
    ELSE IF n < MaxPages THEN {Absent, Some(n)}
    ELSE IF n = MaxPages THEN {Absent}
    ELSE {}

\* the outputs the store can answer its n-th read with: the token of the n-th
\* page is n
StoreOutputs(n) ==
    { [Items |-> [i \in 1..size |-> [page |-> n, no |-> i]],
       LastEvaluatedKey |-> key] :
         size \in PageSizes,
         key \in StoreTokens(n) }

\* QueryOutput.fromDynamoOutput(tableClass, output, tolerant)
fromDynamoOutput(output, tolerant) ==
    [items |-> output.Items,
     count |-> Len(output.Items),
     lastEvaluatedKey |-> output.LastEvaluatedKey,
     tolerant |-> tolerant]

RECURSIVE itemsOf(_)
itemsOf(pages) ==
    IF pages = << >> THEN << >> ELSE Head(pages).items \o itemsOf(Tail(pages))

RECURSIVE countOfPages(_)
countOfPages(pages) ==
    IF pages = << >> THEN 0 ELSE Head(pages).count + countOfPages(Tail(pages))

\* QueryOutput.fromSeveralOutputs(tableClass, outputs): items in page order,
\* the counts summed, the token of the last page
fromSeveralOutputs(pages) ==
    [items |-> itemsOf(pages),
     count |-> countOfPages(pages),
     lastEvaluatedKey |->
         IF pages = << >> THEN Absent ELSE pages[Len(pages)].lastEvaluatedKey,
     tolerant |-> \E i \in DOMAIN pages : pages[i].tolerant]

\* this.page(input) from its first line to the await of the read
Fetch(req) ==
    LET p == pageOf(req) IN
    IF p.threw
    THEN /\ pc' = "failed"
         /\ error' = "Error"
         /\ request' = p.request
         /\ reads' = reads
    ELSE /\ pc' = "await"
         /\ error' = None
         /\ request' = p.request
         /\ reads' = Append(reads, [via |-> p.via, request |-> p.request])

\* a call of exec(), minimum(n) or all(): getInput, then the first page
Start(op, n) ==
    /\ operation' = op
    /\ minimumArg' = n
    /\ LET r == getInputOf(schema, filters, input) IN
        /\ indexMetadata' = r.indexMetadata
        /\ consulted' = r.consulted
        /\ IF r.threw
           THEN /\ pc' = "failed"
                /\ error' = "QueryError"
                /\ request' = r.request
                /\ reads' = reads
           ELSE Fetch(r.request)
    /\ UNCHANGED <<schema, filters, input, outputs, loaded, result, elsewhere>>

Exec ==
    /\ pc = "build"
    /\ Start("exec", 0)

Minimum ==
    /\ pc = "build"
    /\ \E n \in MinimumArgs : Start("minimum", n)

All ==
    /\ pc = "build"
    /\ Start("all", 0)

\* minimumDone that looks at the token alone
minimumDone_tokenOnly(total, minimum, page) ==
    page.lastEvaluatedKey = Absent

\* the break of minimum's loop: enough is loaded, or the store is exhausted
minimumDone(total, minimum, page) ==
    total >= minimum \/ page.lastEvaluatedKey = Absent

\* allDone of a loop that never looks at the token
allDone_never(page) == FALSE

\* allDone that ends the loop on an empty page too
allDone_emptyPage(page) ==
    page.lastEvaluatedKey = Absent \/ page.count = 0

\* the loop of all ends: its condition page.lastEvaluatedKey != null is false
allDone(page) ==
    page.lastEvaluatedKey = Absent

\* carryToken that leaves the start key of the request as it is
carryToken_keepStartKey(req, page) == req

\* input.ExclusiveStartKey = page.lastEvaluatedKey, on the local request
carryToken(req, page) ==
    [req EXCEPT !.ExclusiveStartKey = page.lastEvaluatedKey]

\* NextPage that stores the token in the builder's options as well
NextPage_writesBuilder(page) ==
    /\ result' = result
    /\ input' = [input EXCEPT !.exclusiveStartKey = page.lastEvaluatedKey]
    /\ Fetch(carryToken(request, page))

\* the loop of minimum and all goes round again: the token of the page becomes
\* the start key of the request, and this.input is not written
NextPage(page) ==
    /\ result' = result
    /\ input' = input
    /\ Fetch(carryToken(request, page))

Return(output) ==
    /\ pc' = "done"
    /\ result' = Some(output)
    /\ UNCHANGED <<input, request, error, reads>>

\* the read of page() resolves: from the await to the next await or the return
ReadReturns ==
    /\ pc = "await"
    /\ \E output \in StoreOutputs(Len(reads)) :
        LET page == fromDynamoOutput(output, tolerantOf(request)) IN
        \/ /\ operation = "exec"
           /\ Return(page)
           /\ UNCHANGED <<outputs, loaded>>
        \/ /\ operation = "minimum"
           /\ loaded' = loaded + page.count
           /\ outputs' = Append(outputs, page)
           /\ IF minimumDone(loaded', minimumArg, page)
              THEN Return(fromSeveralOutputs(outputs'))
              ELSE NextPage(page)
        \/ /\ operation = "all"
           /\ loaded' = loaded
           /\ outputs' = Append(outputs, page)
           /\ IF allDone(page)
              THEN Return(fromSeveralOutputs(outputs'))
              ELSE NextPage(page)
    /\ UNCHANGED <<schema, filters, operation, minimumArg, indexMetadata, consulted,
                   elsewhere>>

\* ReadFails that issues the failed request once more
ReadFails_retry ==
    /\ pc = "await"
    /\ pc' = "await"
    /\ error' = "HelpfulError"
    /\ reads' = Append(reads, reads[Len(reads)])
    /\ UNCHANGED <<schema, filters, input, operation, minimumArg, request,
                   indexMetadata, consulted, outputs, loaded, result, elsewhere>>

\* the read of page() rejects: page throws a HelpfulError, which nothing catches
ReadFails ==
    /\ pc = "await"
    /\ pc' = "failed"
    /\ error' = "HelpfulError"
    /\ UNCHANGED <<schema, filters, input, operation, minimumArg, request,
                   indexMetadata, consulted, reads, outputs, loaded, result, elsewhere>>

\* Searches made by Table.search(filters, input), given an index, a sort
\* direction and a start key, and run
Init ==
    /\ schema \in RunCatalogs
    /\ filters \in ConstructorFilters
    /\ input \in ConstructorInputs
    /\ pc = "build"
    /\ NotRun
    /\ Alone

Next ==
    \/ Using \/ Sort \/ Ascending \/ Descending \/ StartAt
    \/ GetInput \/ Exec \/ Minimum \/ All \/ ReadReturns \/ ReadFails

Spec == Init /\ [][Next]_vars

-----------------------------------------------------------------------------
(* Searches that run side by side on one table: each is a MagicSearch of its *)
(* own, the options object of each is held by reference, the catalog and the *)
(* store are shared                                                          *)

MaxCalls == 2       \* builder calls made on one of the searches

Searches == {1, 2}

\* the options object the caller made and hands to the constructors it likes
CallerObjects == {0}

\* defaultInput with one default object for every construction
defaultInput_oneForAll(s) == 1

\* the object of the default `input = {}` of the constructor: evaluated at each
\* call, it is an object of the search's own
defaultInput(s) == s

\* what the options objects hold when the searches are made
madeOptions(ref) ==
    IF ref \in CallerObjects THEN [EmptyInput EXCEPT !.limit = Some(25)] ELSE EmptyInput

\* new MagicSearch(tableClass, filters, input): `private input` keeps the
\* reference it is given; this.filters is an array of the search's own
construct(s, fs, given) ==
    [input |-> IF given = Absent THEN defaultInput(s) ELSE given[1],
     given |-> given,
     made |-> fs,
     filters |-> addFilterGroup(NewSearch, fs).filters,
     calls |-> << >>,
     pc |-> "build",
     operation |-> "none",
     minimumArg |-> 0,
     request |-> NoRequest,
     error |-> None,
     reads |-> << >>,
     outputs |-> << >>,
     loaded |-> 0,
     result |-> Absent]

\* the builder calls made on the searches
ConcCalls ==
    { Call("startAt", {}, Some(1)),
      Call("addFilterGroup", {Cond("email", Plain)}, Absent) }

\* the filters the n-th search is constructed with
ConcFilters(s) ==
    IF s = 1 THEN << >> ELSE <<GroupEntry({Cond("id", Plain)})>>

\* the store answers a read with the page after the start key: pages of ten
\* items, each but the last with its number as token
storeRead(req) ==
    LET n == IF req.ExclusiveStartKey = Absent THEN 1 ELSE req.ExclusiveStartKey[1] + 1
    IN  [Items |-> [i \in 1..10 |-> [page |-> n, no |-> i]],
         LastEvaluatedKey |-> IF n < MaxPages THEN Some(n) ELSE Absent]

\* this.page(input) of the search me, to the await of its read
fetchOf(me, req) ==
    LET p == pageOf(req) IN
    IF p.threw
    THEN [me EXCEPT !.pc = "failed", !.error = "Error", !.request = p.request]
    ELSE [me EXCEPT !.pc = "await", !.error = None, !.request = p.request,
                    !.reads = Append(@, [via |-> p.via, request |-> p.request])]

\* exec(), minimum(n) or all() of the search me, whose options are inp
startOf(sch, me, inp, op, n) ==
    LET r == getInputOf(sch, me.filters, inp)
        m == [me EXCEPT !.operation = op, !.minimumArg = n]
    IN  IF r.threw THEN [m EXCEPT !.pc = "failed", !.error = "QueryError"]
        ELSE fetchOf(m, r.request)

\* the read of the search me resolves with output
resumeOf(me, output) ==
    LET page == fromDynamoOutput(output, tolerantOf(me.request))
        got == [me EXCEPT !.outputs = Append(@, page),
                          !.loaded = IF me.operation = "minimum" THEN @ + page.count
                                     ELSE @]
    IN  IF me.operation = "exec"
        THEN [me EXCEPT !.pc = "done", !.result = Some(page)]
        ELSE IF \/ me.operation = "minimum"
                   /\ minimumDone(got.loaded, me.minimumArg, page)
                \/ me.operation = "all" /\ allDone(page)
        THEN [got EXCEPT !.pc = "done", !.result = Some(fromSeveralOutputs(got.outputs))]
        ELSE fetchOf(got, carryToken(me.request, page))

\* a builder call on the search s writes the options object s refers to
ConcBuild(s) ==
    /\ searches[s].pc = "build"
    /\ Len(searches[s].calls) < MaxCalls
    /\ \E c \in ConcCalls :
        LET me == searches[s]
            t == applyCall([filters |-> me.filters, input |-> heap[me.input]], c)
        IN  /\ heap' = [heap EXCEPT ![me.input] = t.input]
            /\ searches' = [searches EXCEPT ![s].filters = t.filters,
                                            ![s].calls = Append(@, c)]
    /\ UNCHANGED <<schema, filters, input, run, obj, answer, store>>

ConcStart(s) ==
    /\ searches[s].pc = "build"
    /\ \E c \in {<<"exec", 0>>, <<"all", 0>>} \cup { <<"minimum", n>> : n \in MinimumArgs } :
        searches' = [searches EXCEPT
                        ![s] = startOf(schema, @, heap[@.input], c[1], c[2])]
    /\ UNCHANGED <<schema, filters, input, run, heap, obj, answer, store>>

ConcRead(s) ==
    /\ searches[s].pc = "await"
    /\ searches' = [searches EXCEPT ![s] = resumeOf(@, storeRead(@.request))]
    /\ UNCHANGED <<schema, filters, input, run, heap, obj, answer, store>>

ConcInit ==
    /\ schema \in RunCatalogs
    /\ filters = << >>
    /\ input = EmptyInput
    /\ pc = "idle"
    /\ NotRun
    /\ heap = [ref \in CallerObjects \cup Searches |-> madeOptions(ref)]
    /\ \E given \in [Searches -> {Absent} \cup { Some(ref) : ref \in CallerObjects }] :
          searches = [s \in Searches |-> construct(s, ConcFilters(s), given[s])]
    /\ obj = Absent
    /\ answer = Absent
    /\ store = "finite"

ConcNext == \E s \in Searches : ConcBuild(s) \/ ConcStart(s) \/ ConcRead(s)

SpecConc == ConcInit /\ [][ConcNext]_vars

-----------------------------------------------------------------------------
(* utils/is: isDynamoAttributeValue and isDynamoAttributeMap, on JavaScript  *)
(* values. A value is a record: its type, its content when it is a           *)
(* primitive, and its members (own enumerable properties, in insertion       *)
(* order) when it is an object or an array.                                  *)

JsValue(type, val, members) == [type |-> type, val |-> val, members |-> members]

Undefined == JsValue("undefined", "", << >>)
Null == JsValue("null", "", << >>)
Str(x) == JsValue("string", x, << >>)
Num(x) == JsValue("number", x, << >>)
Bool(x) == JsValue("boolean", x, << >>)
Arr(elements) ==
    JsValue("array", "", [i \in DOMAIN elements |-> [key |-> "index", value |-> elements[i]]])
Obj(members) == JsValue("object", "", members)
Member(key, value) == [key |-> key, value |-> value]

\* typeof v: null and arrays are objects
typeofJs(v) ==
    IF v.type \in {"null", "array", "object"} THEN "object" ELSE v.type

\* v[key] of a value that is neither null nor undefined
prop(v, key) ==
    IF \E i \in DOMAIN v.members : v.members[i].key = key
    THEN v.members[CHOOSE i \in DOMAIN v.members : v.members[i].key = key].value
    ELSE Undefined

\* isDynamoAttributeValue(obj): "true", "false", or the TypeError that reading
\* a property of null throws
isDynamoAttributeValue(v) ==
    IF typeofJs(v) = "object"
    THEN IF v.type = "null" THEN "TypeError"
         ELSE IF \/ typeofJs(prop(v, "S")) = "string"
                 \/ typeofJs(prop(v, "N")) = "string"
                 \/ typeofJs(prop(v, "BOOL")) = "boolean"
                 \/ prop(v, "SS").type = "array" \/ prop(v, "NS").type = "array"
                 \/ prop(v, "BS").type = "array" \/ prop(v, "L").type = "array"
                 \/ typeofJs(prop(v, "B")) # "undefined"
                 \/ typeofJs(prop(v, "M")) # "undefined"
                 \/ typeofJs(prop(v, "NULL")) = "boolean"
              THEN "true" ELSE "false"
    ELSE "false"

\* isDynamoAttributeMap(obj): Object.keys(null) throws a TypeError
isDynamoAttributeMap(v) ==
    IF typeofJs(v) = "object"
    THEN IF v.type = "null" THEN "TypeError"
         ELSE IF Len(v.members) > 0
              THEN LET first == v.members[1].value IN
                   IF typeofJs(first) = "object" THEN isDynamoAttributeValue(first)
                   ELSE "false"
              ELSE "false"
    ELSE "false"

\* the values the predicates are called with
JsLeaves ==
    { Undefined, Null, Str(""), Str("test"), Num("1234"), Bool("true"), Bool("false"),
      Arr(<< >>), Obj(<< >>) }

JsTags == {"S", "N", "BOOL", "NULL", "SS", "L", "B", "M", "a"}

JsTagged == { Obj(<<Member(k, v)>>) : k \in JsTags, v \in JsLeaves }

JsValues ==
    JsLeaves \cup JsTagged
    \cup { Obj(<<Member("a", v)>>) : v \in JsTagged }
    \cup { Obj(<<Member("a", Bool("true")), Member("b", Obj(<<Member("S", Str("test"))>>))>>),
           Obj(<<Member("a", Obj(<<Member("S", Str("test"))>>)), Member("b", Bool("true"))>>),
           Arr(<<Obj(<<Member("N", Str("1234"))>>)>>),
           Arr(<<Null>>) }

Outcome(fn, outcome) == Some([fn |-> fn, outcome |-> outcome])

IsDynamoAttributeValue ==
    /\ IsPresent(obj)
    /\ answer = Absent
    /\ answer' = Outcome("isDynamoAttributeValue", isDynamoAttributeValue(obj[1]))
    /\ UNCHANGED <<schema, filters, input, run, heap, searches, obj, store>>

IsDynamoAttributeMap ==
    /\ IsPresent(obj)
    /\ answer = Absent
    /\ answer' = Outcome("isDynamoAttributeMap", isDynamoAttributeMap(obj[1]))
    /\ UNCHANGED <<schema, filters, input, run, heap, searches, obj, store>>

IsInit ==
    /\ schema = Absent
    /\ filters = << >>
    /\ input = EmptyInput
    /\ pc = "idle"
    /\ NotRun
    /\ heap = << >>
    /\ searches = << >>
    /\ obj \in { Some(v) : v \in JsValues }
    /\ answer = Absent
    /\ store = "finite"

IsNext == IsDynamoAttributeValue \/ IsDynamoAttributeMap

SpecIs == IsInit /\ [][IsNext]_vars

-----------------------------------------------------------------------------
(* Nested groups: callbacks that call on the child builder what a builder    *)
(* offers, on searches that have options of their own                        *)

ChildCallbacks ==
    << <<Call("addFilterGroup", {Cond("email", Plain)}, None),
         Call("or", {}, None),
         Call("addFilterGroup", {Cond("id", Plain)}, None)>>,
       <<Call("limit", {}, 25),
         Call("sort", {}, "descending"),
         Call("using", {}, IndexByName("byEmail")),
         Call("count", {}, None),
         Call("addFilterGroup", {Cond("ts", "between")}, None)>>,
       <<Call("addFilterGroup", {Cond("id", Plain)}, None),
         Call("group", {},
              <<Call("or", {}, None),
                Call("addFilterGroup", {Cond("rk", Plain)}, None),
                Call("startAt", {}, Some(1))>>)>> >>

Parenthesis ==
    /\ pc = "build"
    /\ Len(filters) < MaxFilters
    /\ \E i \in DOMAIN ChildCallbacks : Built(parenthesis(This, ChildCallbacks[i]))

GroupInit ==
    /\ schema \in RunCatalogs
    /\ filters \in ConstructorFilters
    /\ input \in ConstructorInputs
    /\ pc = "build"
    /\ NotRun
    /\ Alone

GroupNext ==
    \/ Or \/ Group \/ Parenthesis \/ Limit \/ Count \/ Ascending \/ Descending

SpecGroup == GroupInit /\ [][GroupNext]_vars

-----------------------------------------------------------------------------
(* Runs whose every read returns a page, on a store that ends and on one     *)
(* that has a token on every page. The read page() awaits resolves, and the  *)
(* operation that awaits it goes on: ReadReturns is taken when it can be.    *)

LiveInit ==
    /\ schema \in RunCatalogs
    /\ filters \in ConstructorFilters
    /\ input \in ConstructorInputs
    /\ pc = "build"
    /\ NotRun
    /\ heap = << >>
    /\ searches = << >>
    /\ obj = Absent
    /\ answer = Absent
    /\ store \in {"finite", "endless"}

LiveNext == StartAt \/ Descending \/ Exec \/ Minimum \/ All \/ ReadReturns

SpecLive == LiveInit /\ [][LiveNext]_vars /\ WF_vars(ReadReturns)

-----------------------------------------------------------------------------
(* Index selection: the claims *)

\* getInput has returned a request for a search that names no index
AutoCompiled ==
    /\ operation = "getInput"
    /\ pc = "compiled"
    /\ input.index.by = "none"

\* the entry is a filter group with a key-eligible condition on attr: a bare
\* value, or an operator of the key-condition-allowed set
Eligible(entry, attr) ==
    /\ entry.kind = "group"
    /\ \E c \in entry.conds :
          c.attr = attr /\ (c.op = Plain \/ c.op \in keyConditionAllowedOperators)

\* the entry is a filter group with a condition on attr that is not key-eligible
Ineligible(entry, attr) ==
    /\ entry.kind = "group"
    /\ \E c \in entry.conds :
          c.attr = attr /\ c.op # Plain /\ c.op \notin keyConditionAllowedOperators

\* one top-level entry of the filter list is key-eligible for hash and, when
\* there is a range, for the range too
UsableKey(hash, range) ==
    \E i \in DOMAIN filters :
        Eligible(filters[i], hash) /\ (range = None \/ Eligible(filters[i], range))

FullProjection(index) == index.projection \notin {"KEYS_ONLY", "INCLUDE"}

UsablePrimary == UsableKey(schema.primaryKey.hash, schema.primaryKey.range)

UsableGsi(i) ==
    LET g == schema.globalSecondaryIndexes[i] IN
    FullProjection(g) /\ UsableKey(g.hash, g.range)

UsableLsi(i) ==
    LET l == schema.localSecondaryIndexes[i] IN
    FullProjection(l) /\ UsableKey(schema.primaryKey.hash, l.range)

FirstOf(S) == CHOOSE i \in S : \A j \in S : i <= j

UsableGsis == { i \in DOMAIN schema.globalSecondaryIndexes : UsableGsi(i) }
UsableLsis == { i \in DOMAIN schema.localSecondaryIndexes : UsableLsi(i) }

\* C1: automatic selection is first-match in the order primary key, global
\* secondary indexes in declaration order, local secondary indexes in
\* declaration order; when none is usable no index is selected.
C1_FirstMatchOrder ==
    AutoCompiled =>
        /\ consulted
        /\ UsablePrimary => indexMetadata = schema.primaryKey
        /\ (~UsablePrimary /\ UsableGsis # {}) =>
              indexMetadata = schema.globalSecondaryIndexes[FirstOf(UsableGsis)]
        /\ (~UsablePrimary /\ UsableGsis = {} /\ UsableLsis # {}) =>
              /\ indexMetadata.name = schema.localSecondaryIndexes[FirstOf(UsableLsis)].name
              /\ indexMetadata.range = schema.localSecondaryIndexes[FirstOf(UsableLsis)].range
              /\ indexMetadata.kind = "LSI"
        /\ (~UsablePrimary /\ UsableGsis = {} /\ UsableLsis = {}) =>
              indexMetadata = NoIndex

\* a usable global index was preferred to a usable local one
C1_Witness ==
    /\ AutoCompiled
    /\ ~UsablePrimary
    /\ UsableGsis # {}
    /\ UsableLsis # {}
    /\ indexMetadata = schema.globalSecondaryIndexes[FirstOf(UsableGsis)]

\* the i-th entry is a filter group that no 'OR' marker adjoins
Unconditional(i) ==
    /\ filters[i].kind = "group"
    /\ ~(i > 1 /\ filters[i - 1].kind = "OR")
    /\ ~(i < Len(filters) /\ filters[i + 1].kind = "OR")

\* C2 as stated: an unconditional key-eligible condition on the primary hash,
\* and one on the primary range (if there is a range) in the same or in another
\* unconditional entry, make automatic selection return the primary key.
C2_AnyEntry ==
    AutoCompiled =>
        ( ( /\ \E i \in DOMAIN filters :
                  Unconditional(i) /\ Eligible(filters[i], schema.primaryKey.hash)
            /\ \/ schema.primaryKey.range = None
               \/ \E j \in DOMAIN filters :
                     Unconditional(j) /\ Eligible(filters[j], schema.primaryKey.range) )
          => indexMetadata = schema.primaryKey )

\* C2 amended: the condition on the range has to sit in the same top-level
\* filter group as the condition on the hash.
C2_SameEntry ==
    AutoCompiled =>
        ( ( \E i \in DOMAIN filters :
               /\ Unconditional(i)
               /\ Eligible(filters[i], schema.primaryKey.hash)
               /\ \/ schema.primaryKey.range = None
                  \/ Eligible(filters[i], schema.primaryKey.range) )
          => indexMetadata = schema.primaryKey )

\* a primary key with a range was selected on a group that holds both conditions,
\* the one on the hash with an operator
C2_Witness ==
    /\ AutoCompiled
    /\ schema.primaryKey.range # None
    /\ \E i \in DOMAIN filters :
          /\ Unconditional(i)
          /\ Cond(schema.primaryKey.hash, "=") \in filters[i].conds
          /\ Eligible(filters[i], schema.primaryKey.range)
    /\ indexMetadata = schema.primaryKey

\* the i-th entry stands immediately before or after an 'OR' marker
OrAdjoined(i) ==
    \/ i > 1 /\ filters[i - 1].kind = "OR"
    \/ i < Len(filters) /\ filters[i + 1].kind = "OR"

\* every condition the top-level entries carry on attr sits in an entry that an
\* 'OR' marker adjoins, and there is one
OnlyInOrBranch(attr) ==
    /\ \E i \in DOMAIN filters : has(filters[i], attr)
    /\ \A i \in DOMAIN filters : has(filters[i], attr) => OrAdjoined(i)

\* every 'OR' marker of the filter list stands between two entries that are
\* not markers
OrBetweenEntries ==
    \A i \in DOMAIN filters :
        filters[i].kind = "OR" =>
            /\ i > 1 /\ filters[i - 1].kind # "OR"
            /\ i < Len(filters) /\ filters[i + 1].kind # "OR"

\* C3: an index whose hash attribute is conditioned only in OR-disjoined
\* entries is never selected automatically (stated for the filter lists whose
\* markers each join two entries).
C3_NoIndexFromOrBranch ==
    (AutoCompiled /\ OrBetweenEntries) =>
        (indexMetadata # NoIndex => ~OnlyInOrBranch(indexMetadata.hash))

KeyAttributes(index) == {index.hash, index.range} \ {None}

\* C4 as stated: a condition with a non-eligible operator on a key attribute,
\* anywhere in the top-level entries, keeps automatic selection from returning
\* an index keyed on that attribute.
C4_WholeRequest ==
    AutoCompiled =>
        \A a \in KeyAttributes(indexMetadata) :
            ~\E i \in DOMAIN filters : Ineligible(filters[i], a)

\* every condition the top-level entries carry on attr is not key-eligible, and
\* there is one
AllIneligible(attr) ==
    /\ \E i \in DOMAIN filters : has(filters[i], attr)
    /\ \A i \in DOMAIN filters : has(filters[i], attr) => Ineligible(filters[i], attr)

\* C4 amended: an attribute all of whose top-level conditions have a
\* non-eligible operator is disqualified; automatic selection returns no index
\* keyed on it.
C4_EveryConditionIneligible ==
    AutoCompiled =>
        \A a \in KeyAttributes(indexMetadata) : ~AllIneligible(a)

\* the primary hash is disqualified and a global index on another attribute is
\* selected instead
C4_Witness ==
    /\ AutoCompiled
    /\ AllIneligible(schema.primaryKey.hash)
    /\ schema.primaryKey.range = None
    /\ indexMetadata.kind = "GSI"

\* the catalog without the indexes of a KEYS_ONLY or INCLUDE projection
RECURSIVE fullOnly(_)
fullOnly(indexes) ==
    IF indexes = << >> THEN << >>
    ELSE (IF FullProjection(Head(indexes)) THEN <<Head(indexes)>> ELSE << >>)
         \o fullOnly(Tail(indexes))

FullCatalog ==
    [schema EXCEPT !.globalSecondaryIndexes = fullOnly(@),
                   !.localSecondaryIndexes = fullOnly(@)]

\* C5: automatic selection never returns an index of a KEYS_ONLY or INCLUDE
\* projection; it returns what it returns for the catalog without such indexes.
C5_FullProjectionOnly ==
    AutoCompiled =>
        /\ FullProjection(indexMetadata)
        /\ indexMetadata = findAvailableIndex(FullCatalog, filters)

\* the first global index would serve the filters but for its projection, and a
\* later candidate was selected
C5_Witness ==
    /\ AutoCompiled
    /\ ~UsablePrimary
    /\ Len(schema.globalSecondaryIndexes) > 0
    /\ ~FullProjection(schema.globalSecondaryIndexes[1])
    /\ UsableKey(schema.globalSecondaryIndexes[1].hash,
                 schema.globalSecondaryIndexes[1].range)
    /\ indexMetadata # NoIndex

-----------------------------------------------------------------------------
(* Request options: the claims *)

\* getInput has returned a request
Compiled == operation = "getInput" /\ pc = "compiled"

\* C10: a request compiled after count() has the count-only selector and no
\* projection expression, whatever projection was asked for and in whatever
\* order.
C10_CountExcludesProjection ==
    (Compiled /\ input.returnOnlyCount = TRUE) =>
        /\ request.Select = "COUNT"
        /\ request.ProjectionExpression = Absent

\* count() was followed by a call that asks for attributes, on a search built
\* with a raw projection expression or without one
C10_Witness ==
    /\ Compiled
    /\ input.returnOnlyCount = TRUE
    /\ IsPresent(input.attributes)
    /\ Len(input.attributes[1]) = 2
    /\ request.Select = "COUNT"

-----------------------------------------------------------------------------
(* Execution: the claims *)

\* exec, minimum or all has been called
Ran == operation \in {"exec", "minimum", "all"}

\* getInput returned a request to the operation
GotRequest == Ran /\ error # "QueryError"

NoIndexQualifies == ~UsablePrimary /\ UsableGsis = {} /\ UsableLsis = {}

\* C6: with no index supplied and none that qualifies the request has no key
\* condition and no index name and every read is a scan; a read is a query
\* exactly when its request carries a key condition.
C6_ScanWithoutKeyCondition ==
    Ran =>
        /\ (input.index.by = "none" /\ NoIndexQualifies) =>
              /\ request.KeyConditionExpression = Absent
              /\ request.IndexName = None
              /\ \A i \in DOMAIN reads : reads[i].via = "scan"
        /\ \A i \in DOMAIN reads :
              reads[i].via = "query" <=> IsPresent(reads[i].request.KeyConditionExpression)

\* all() fetched two pages or more by scans for a filter no index serves
C6_Witness ==
    /\ operation = "all"
    /\ pc = "done"
    /\ input.index.by = "none"
    /\ filters # << >>
    /\ NoIndexQualifies
    /\ Len(reads) >= 2
    /\ \A i \in DOMAIN reads : reads[i].via = "scan"

GsiNamed(n) ==
    \E i \in DOMAIN schema.globalSecondaryIndexes :
        schema.globalSecondaryIndexes[i].name = n

LsiNamed(n) ==
    \E i \in DOMAIN schema.localSecondaryIndexes :
        schema.localSecondaryIndexes[i].name = n

\* the index getInput passed on is the one of this kind and name, and the
\* request names it
Uses(kind, name) ==
    /\ error # "QueryError"
    /\ indexMetadata.kind = kind
    /\ indexMetadata.name = name
    /\ request.IndexName = name

\* C7: a supplied index is used without findAvailableIndex being called; a
\* name is looked up in the global indexes, then in the local ones; a name
\* that is in neither fails before a request exists or a read is issued.
C7_SuppliedIndex ==
    (operation # "none" /\ input.index.by # "none") =>
        /\ ~consulted
        /\ input.index.by = "ref" =>
              /\ Uses(input.index.metadata.kind, input.index.metadata.name)
              /\ indexMetadata.range = input.index.metadata.range
        /\ (input.index.by = "name" /\ GsiNamed(input.index.name)) =>
              Uses("GSI", input.index.name)
        /\ (input.index.by = "name" /\ ~GsiNamed(input.index.name)
                                    /\ LsiNamed(input.index.name)) =>
              Uses("LSI", input.index.name)
        /\ (input.index.by = "name" /\ ~GsiNamed(input.index.name)
                                    /\ ~LsiNamed(input.index.name)) =>
              /\ pc = "failed"
              /\ error = "QueryError"
              /\ request = NoRequest
              /\ reads = << >>
              /\ result = Absent

\* a name that a global and a local index share resolved to the global one and
\* was read from, for filters that have no condition on its hash
C7_Witness ==
    /\ Ran
    /\ input.index.by = "name"
    /\ GsiNamed(input.index.name)
    /\ LsiNamed(input.index.name)
    /\ \A i \in DOMAIN filters : ~has(filters[i], indexMetadata.hash)
    /\ filters # << >>
    /\ Uses("GSI", input.index.name)
    /\ reads # << >>

\* C8: a descending sort on a request without a key condition fails exec,
\* minimum and all with the usage error, and no read is issued.
C8_DescendingScanRejected ==
    (GotRequest /\ input.rangeOrder = "DESC"
                /\ request.KeyConditionExpression = Absent) =>
        /\ pc = "failed"
        /\ error = "Error"
        /\ reads = << >>
        /\ result = Absent

\* minimum threw the usage error for a descending scan
C8_Witness ==
    /\ operation = "minimum"
    /\ input.rangeOrder = "DESC"
    /\ request.KeyConditionExpression = Absent
    /\ error = "Error"
    /\ reads = << >>

\* C9 as stated: any explicit sort direction, ascending too, on a request
\* without a key condition is rejected with the usage error and no scan runs.
C9_AnyDirectionRejected ==
    (GotRequest /\ input.rangeOrder # None
                /\ request.KeyConditionExpression = Absent) =>
        /\ error = "Error"
        /\ reads = << >>

\* C9 amended: only the descending direction is rejected on a scan; an
\* explicitly ascending scan runs, its requests carrying no scan direction.
C9_OnlyDescendingRejected ==
    (GotRequest /\ request.KeyConditionExpression = Absent) =>
        /\ input.rangeOrder = "DESC" => (error = "Error" /\ reads = << >>)
        /\ input.rangeOrder = "ASC" =>
              /\ error # "Error"
              /\ reads # << >>
              /\ \A i \in DOMAIN reads :
                    /\ reads[i].via = "scan"
                    /\ reads[i].request.ScanIndexForward = Absent

\* an explicitly ascending scan ran to its end
C9_Witness ==
    /\ Ran
    /\ input.rangeOrder = "ASC"
    /\ request.KeyConditionExpression = Absent
    /\ pc = "done"
    /\ reads # << >>
    /\ reads[1].via = "scan"

\* C18 as stated: the usage error is raised when the request is compiled:
\* getInput returns no request that has ScanIndexForward = false and no key
\* condition expression.
C18_RejectedAtCompileTime ==
    Compiled =>
        ~(request.ScanIndexForward = Some(FALSE) /\ request.KeyConditionExpression = Absent)

\* C18 amended: getInput raises no usage error and returns the request of a
\* descending search with ScanIndexForward = false, key condition or not; the
\* usage error is raised by page, called by exec, minimum and all, before any
\* read is issued.
C18_RejectedAtFetch ==
    /\ operation = "getInput" => error # "Error"
    /\ (Compiled /\ input.rangeOrder = "DESC") => request.ScanIndexForward = Some(FALSE)
    /\ (GotRequest /\ input.rangeOrder = "DESC"
                   /\ request.KeyConditionExpression = Absent) =>
          /\ error = "Error"
          /\ request.ScanIndexForward = Some(FALSE)
          /\ reads = << >>
    /\ Ran => (error = "Error" =>
                  /\ input.rangeOrder = "DESC"
                  /\ request.KeyConditionExpression = Absent)

\* getInput returned the request of a descending scan
C18_Witness ==
    /\ Compiled
    /\ input.rangeOrder = "DESC"
    /\ request.ScanIndexForward = Some(FALSE)
    /\ request.KeyConditionExpression = Absent
    /\ error = None

\* the local secondary index of the catalog that has the name n
LsiOf(n) ==
    schema.localSecondaryIndexes[
        CHOOSE i \in DOMAIN schema.localSecondaryIndexes :
            schema.localSecondaryIndexes[i].name = n]

\* C20: a local secondary index handed to the expression compiler, selected
\* automatically or supplied by name or by reference, is the synthesized
\* descriptor: its hash is the primary hash of the table and its range is the
\* index's own; supplied by reference it is the descriptor its name yields.
C20_LsiDescriptorSynthesized ==
    (operation # "none" /\ error # "QueryError" /\ indexMetadata.kind = "LSI") =>
        /\ indexMetadata.hash = schema.primaryKey.hash
        /\ indexMetadata.range = LsiOf(indexMetadata.name).range
        /\ (input.index.by = "ref" /\ ~GsiNamed(indexMetadata.name)) =>
              indexMetadata = indexByName(schema, indexMetadata.name)

-----------------------------------------------------------------------------
(* Paging: the claims *)

\* minimum or all got its request and its first page was asked for
Paging(op) == operation = op /\ error \notin {"QueryError", "Error"}

\* a read is outstanding, or was when it failed
ReadPending == pc = "await" \/ error = "HelpfulError"

\* the count accumulated over the first i pages fetched
loadedAfter(i) == countOfPages(SubSeq(outputs, 1, i))

\* after the i-th page minimum has enough, or the store is exhausted
StopsAfter(i) ==
    loadedAfter(i) >= minimumArg \/ outputs[i].lastEvaluatedKey = Absent

\* the pages fetched so far are those of a store of three pages of ten items,
\* the first two with a token
ThreeTens ==
    \A i \in DOMAIN outputs :
        /\ outputs[i].count = 10
        /\ (outputs[i].lastEvaluatedKey # Absent) <=> i < 3

\* C11: minimum(n) reads on exactly until the first page after which the
\* accumulated count is at least n or the token is absent: no read follows such
\* a page and it returns after no other; on pages of 10, 10, 10 with tokens
\* after the first two, minimum(25) reads three pages and returns 30 merged
\* items without a token.
C11_MinimumStopRule ==
    Paging("minimum") =>
        /\ \A i \in 1..(Len(outputs) - 1) : ~StopsAfter(i)
        /\ Len(reads) = Len(outputs) + (IF ReadPending THEN 1 ELSE 0)
        /\ (ReadPending /\ outputs # << >>) => ~StopsAfter(Len(outputs))
        /\ ~ReadPending =>
              /\ pc = "done"
              /\ outputs # << >>
              /\ StopsAfter(Len(outputs))
              /\ result = Some(fromSeveralOutputs(outputs))
        /\ (pc = "done" /\ minimumArg = 25 /\ ThreeTens) =>
              /\ Len(reads) = 3
              /\ Len(result[1].items) = 30
              /\ result[1].count = 30
              /\ result[1].lastEvaluatedKey = Absent

\* minimum(25) returned the three pages of ten
C11_Witness ==
    /\ operation = "minimum"
    /\ pc = "done"
    /\ minimumArg = 25
    /\ ThreeTens
    /\ Len(outputs) = 3
    /\ Len(result[1].items) = 30

\* the items are in the order of the store: by page, and within a page by
\* their place in it
InStoreOrder(items) ==
    \A a, b \in DOMAIN items :
        a < b => \/ items[a].page < items[b].page
                 \/ items[a].page = items[b].page /\ items[a].no < items[b].no

\* C12: all() reads page after page until the first page without a token and
\* then returns: for k pages of which all but the last carry a token it issues
\* exactly k reads, the merged items are the pages' items in fetch order, and
\* the merged token is absent.
C12_AllReadsEveryPage ==
    Paging("all") =>
        /\ \A i \in 1..(Len(outputs) - 1) : outputs[i].lastEvaluatedKey # Absent
        /\ \A i \in DOMAIN outputs : \A j \in DOMAIN outputs[i].items :
              outputs[i].items[j].page = i
        /\ Len(reads) = Len(outputs) + (IF ReadPending THEN 1 ELSE 0)
        /\ (ReadPending /\ outputs # << >>) =>
              outputs[Len(outputs)].lastEvaluatedKey # Absent
        /\ ~ReadPending =>
              /\ pc = "done"
              /\ outputs # << >>
              /\ outputs[Len(outputs)].lastEvaluatedKey = Absent
              /\ IsPresent(result)
              /\ Len(result[1].items) = loadedAfter(Len(outputs))
              /\ InStoreOrder(result[1].items)
              /\ \A i \in DOMAIN outputs : \A j \in DOMAIN outputs[i].items :
                    \E a \in DOMAIN result[1].items :
                        result[1].items[a] = outputs[i].items[j]
              /\ result[1].lastEvaluatedKey = Absent

\* all() returned every page of the store, an empty one with a token among them
C12_Witness ==
    /\ operation = "all"
    /\ pc = "done"
    /\ Len(reads) = MaxPages
    /\ Len(outputs) = MaxPages
    /\ outputs[2].count = 0
    /\ Len(result[1].items) = 10 * (MaxPages - 1)

\* C13: a read of minimum(n) or all() that fails ends the operation in an
\* error: the failed read is the last one issued, it is issued once, no result
\* is returned (the pages fetched before it are dropped), and nothing is read
\* or returned afterwards.
C13_FailureAborts ==
    /\ [] ( (operation \in {"minimum", "all"} /\ error = "HelpfulError") =>
              /\ pc = "failed"
              /\ result = Absent
              /\ Len(reads) = Len(outputs) + 1
              /\ \A i, j \in DOMAIN reads : i # j => reads[i] # reads[j] )
    /\ [][ (operation \in {"minimum", "all"} /\ error = "HelpfulError") =>
              (reads' = reads /\ result' = result /\ pc' = pc) ]_vars

\* the third read of all() failed after two pages had been fetched
C13_Witness ==
    /\ operation = "all"
    /\ error = "HelpfulError"
    /\ pc = "failed"
    /\ Len(reads) = 3
    /\ Len(outputs) = 2
    /\ outputs[1].count = 10
    /\ result = Absent

\* C19: the reads of minimum(n) and all() go one after the other, chained by
\* the tokens: the first request has the start key of the caller (none if
\* none was given), each later request is made when the page before it has
\* been received and has that page's token as its start key and is otherwise
\* the same request, and no two reads are outstanding at once.
C19_TokenChained ==
    operation \in {"minimum", "all"} =>
        /\ reads # << >> =>
              reads[1].request.ExclusiveStartKey = input.exclusiveStartKey
        /\ \A i \in 2..Len(reads) :
              /\ Len(outputs) >= i - 1
              /\ IsPresent(outputs[i - 1].lastEvaluatedKey)
              /\ reads[i].request =
                    [reads[1].request EXCEPT
                        !.ExclusiveStartKey = outputs[i - 1].lastEvaluatedKey]
              /\ reads[i].via = reads[1].via
        /\ Len(reads) - Len(outputs) \in {0, 1}
        /\ Len(reads) - Len(outputs) = 1 <=> ReadPending

\* the third read of a search given a start key is outstanding
C19_Witness ==
    /\ operation \in {"minimum", "all"}
    /\ pc = "await"
    /\ Len(reads) = 3
    /\ Len(outputs) = 2
    /\ input.exclusiveStartKey = Some(0)
    /\ reads[1].request.ExclusiveStartKey = Some(0)
    /\ reads[3].request.ExclusiveStartKey = Some(2)

\* the flag the decoder of the i-th page was given is the presence of the
\* projection expression in the request of the i-th read
TolerantAsRequested(page, read) ==
    /\ read.via \in {"query", "scan"}
    /\ read.via = "query" <=> IsPresent(read.request.KeyConditionExpression)
    /\ page.tolerant <=> IsPresent(read.request.ProjectionExpression)

\* C23: page() hands QueryOutput.fromDynamoOutput a tolerant flag that is true
\* exactly when the request it has read with has a ProjectionExpression, on
\* the query branch and on the scan branch alike.
C23_TolerantIffProjection ==
    /\ \A i \in DOMAIN outputs : TolerantAsRequested(outputs[i], reads[i])
    /\ (operation = "exec" /\ pc = "done") =>
          TolerantAsRequested(result[1], reads[1])

\* two pages of a scan with a projection expression were decoded tolerantly
C23_Witness ==
    /\ Len(outputs) = 2
    /\ reads[1].via = "scan"
    /\ reads[2].request.ProjectionExpression = Some(<<"#raw">>)
    /\ outputs[1].tolerant
    /\ outputs[2].tolerant

\* C16: getInput, exec, minimum and all leave the filter list and the options
\* of the search as they are (paging does not write the page token over the
\* start key startAt stored), and getInput called again with no builder call in
\* between returns the same request.
C16_CompilationIsPure ==
    /\ [][ operation' # "none" => (filters' = filters /\ input' = input) ]_vars
    /\ [][ (operation = "getInput" /\ pc = "compiled" /\ operation' = "getInput") =>
              (pc' = "compiled" /\ request' = request
                                /\ indexMetadata' = indexMetadata) ]_vars

\* a second page was asked for with the token of the first, and the options
\* still hold the start key of the caller
C16_Witness ==
    /\ operation \in {"minimum", "all"}
    /\ Len(reads) >= 2
    /\ input.exclusiveStartKey = Some(0)
    /\ reads[1].request.ExclusiveStartKey = Some(0)
    /\ request.ExclusiveStartKey = Some(1)

\* C22: when every read returns and the store ends (a page without a token
\* comes after finitely many), minimum(n) and all() return a result in the
\* end; on a store that has a token on every page all() never returns: while
\* nothing fails it has a read outstanding.
C22_Termination ==
    /\ (store = "finite" /\ operation \in {"minimum", "all"} /\ pc = "await")
          ~> (pc = "done" /\ IsPresent(result))
    /\ [] ( (store = "endless" /\ operation = "all") =>
              /\ pc # "done"
              /\ result = Absent
              /\ error = None => (pc = "await" /\ Len(reads) = Len(outputs) + 1) )

\* minimum(25) came to the end of a store that never gave it 25 items
C22_Witness ==
    /\ store = "finite"
    /\ operation = "minimum"
    /\ minimumArg = 25
    /\ pc = "done"
    /\ Len(reads) = MaxPages
    /\ result[1].count < 25
    /\ result[1].lastEvaluatedKey = Absent

-----------------------------------------------------------------------------
(* The filter list: the claims *)

\* no 'OR' marker is the first entry of fs and no two stand side by side, in
\* fs and in every list nested in it
RECURSIVE OrMarkersApart(_)
OrMarkersApart(fs) ==
    /\ fs # << >> => fs[1].kind # "OR"
    /\ \A i \in 1..(Len(fs) - 1) : ~(fs[i].kind = "OR" /\ fs[i + 1].kind = "OR")
    /\ \A i \in DOMAIN fs : fs[i].kind = "nested" => OrMarkersApart(fs[i].sub)

\* C14: after any sequence of addFilterGroup, or, and, group and parenthesis
\* calls the filter list has no 'OR' marker at position 0 and no two adjacent
\* 'OR' markers.
C14_OrMarkersApart == OrMarkersApart(filters)

-----------------------------------------------------------------------------
(* Searches side by side: the claims *)

\* the two searches were made apart: not on one and the same options object of
\* the caller
Independent ==
    ~(searches[1].given # Absent /\ searches[1].given = searches[2].given)

\* the search s as its own builder calls, and no other, leave it
builtAlone(s) ==
    runCallback([filters |-> addFilterGroup(NewSearch, searches[s].made).filters,
                 input |-> madeOptions(searches[s].input)],
                searches[s].calls)

RECURSIVE runAlone(_)
runAlone(me) ==
    IF me.pc = "await" THEN runAlone(resumeOf(me, storeRead(me.request))) ELSE me

\* the search s run from its call to its end with no step of another search
\* in between
ranAlone(s) ==
    LET me == searches[s]
        b == builtAlone(s)
        fresh == [construct(s, me.made, me.given) EXCEPT !.filters = b.filters,
                                                         !.calls = me.calls]
    IN  runAlone(startOf(schema, fresh, b.input, me.operation, me.minimumArg))

IsPrefix(a, b) == Len(a) <= Len(b) /\ SubSeq(b, 1, Len(a)) = a

C21_GroupSplicesOneEntry ==
    [][ (Group \/ Parenthesis) =>
            /\ Len(filters') = Len(filters) + 1
            /\ SubSeq(filters', 1, Len(filters)) = filters
            /\ filters'[Len(filters')].kind = "nested"
            /\ input' = input ]_vars

\* a callback that called limit, sort, using and count on its child left a
\* nested entry behind a filter group of the parent, whose options are empty
C21_Witness ==
    /\ Len(filters) >= 2
    /\ filters[1].kind = "group"
    /\ filters[Len(filters)].kind = "nested"
    /\ filters[Len(filters)].sub = <<GroupEntry({Cond("ts", "between")})>>
    /\ input = EmptyInput

-----------------------------------------------------------------------------
(* utils/is: the claims *)

\* a type-tagged value {S}, {N}, {BOOL: true|false} or {NULL: true|false}
TypeTagged(v) ==
    /\ v.type = "object"
    /\ \/ prop(v, "S").type = "string"
       \/ prop(v, "N").type = "string"
       \/ prop(v, "BOOL").type = "boolean"
       \/ prop(v, "NULL").type = "boolean"

\* null, undefined, the empty object, a string, or an object none of whose
\* members has the name of a type tag
NoAttributeValue(v) ==
    \/ v.type \in {"null", "undefined", "string"}
    \/ /\ v.type = "object"
       /\ \A i \in DOMAIN v.members : v.members[i].key \notin JsTags \ {"a"}

\* C17: the two predicates never raise; they answer false for null, undefined,
\* the empty object, a string and an object without type-tagged members, and
\* true for a type-tagged value (isDynamoAttributeValue) and for a map whose
\* first member is one (isDynamoAttributeMap).
C17_TotalPredicates ==
    IsPresent(answer) =>
        LET v == obj[1]
            a == answer[1]
        IN  /\ a.outcome # "TypeError"
            /\ (a.fn = "isDynamoAttributeValue" /\ NoAttributeValue(v)) => a.outcome = "false"
            /\ (a.fn = "isDynamoAttributeValue" /\ TypeTagged(v)) => a.outcome = "true"
            /\ (a.fn = "isDynamoAttributeMap"
                  /\ \/ v.type \in {"null", "undefined", "string"}
                     \/ /\ v.type = "object"
                        /\ \/ v.members = << >>
                           \/ NoAttributeValue(v.members[1].value)) => a.outcome = "false"
            /\ (a.fn = "isDynamoAttributeMap" /\ v.type = "object" /\ v.members # << >>
                  /\ TypeTagged(v.members[1].value)) => a.outcome = "true"

=============================================================================
